---- MODULE Spec2Model ----
(***************************************************************************)
(* Model of the JSON-RPC client of soroban-cli                             *)
(* (cmd/soroban-cli/src/rpc/mod.rs): one Client bound to a base URL, and   *)
(* concurrent send_transaction calls on it.  Each call is an async task;   *)
(* an action is the code a task runs between two await points.  The node   *)
(* (transport + server) is the environment: it picks every reply.          *)
(***************************************************************************)
EXTENDS Integers, Sequences, FiniteSets, TLC

(* ------------------------------ bounds --------------------------------- *)

\* Clock resolution: ticks per second (2 = half seconds, so 10.5 s exists).
UnitsPerSec == 2

\* start.elapsed() is followed this many ticks beyond the first tick at
\* which as_secs() exceeds the ceiling, then saturates.
Slack == 1

\* In the concurrent specification the node answers `pending` at most this
\* many times to one call, and the clock is followed until some running
\* call's start.elapsed() has reached this many ticks.
MaxConcPendings == 1
MaxConcElapsed == 5

\* The longest lists of contract ids and of topics passed to get_events.
MaxContractIds == 1
MaxTopics == 1

\* The concurrent tasks calling methods of the one Client.
Calls == {1, 2}

(* ------------------------- program constants --------------------------- *)

\* `duration.as_secs() > 10`
TimeoutSecs == 10

\* Variant of SleepSecs: a sleep of no duration.
SleepSecsNone == 1 - 1

\* `sleep(Duration::from_secs(1))`
SleepSecs == 1

(* --------------------------- value domains ----------------------------- *)

Urls == {"http://node:8000", "not a url"}

\* Envelopes handed to send_transaction; the second one cannot be written
\* as XDR (to_xdr_base64 returns Err).
Envelopes == {"tx", "unencodable"}

\* Transaction ids the node hands out.
Ids == {"id1", "id2"}

\* Status strings the node may answer; the last two are outside the three
\* the client knows (the match is on the exact string).
Statuses == {"pending", "success", "error", "unknown", "PENDING"}

ResultLists == {<< >>, <<"xdr1">>}

Min(a, b) == IF a < b THEN a ELSE b
Max(a, b) == IF a > b THEN a ELSE b

(* ------------------------------ replies -------------------------------- *)

\* What `client.request(..).await` can yield for sendTransaction: a
\* transport failure, a body that does not decode as SendTransactionResponse,
\* or SendTransactionResponse { id, status }.
SendReplies ==
    {[kind |-> k, id |-> "", status |-> ""] : k \in {"transport", "decode"}}
    \cup {[kind |-> "ok", id |-> i, status |-> s] : i \in Ids, s \in Statuses}

\* What get_transaction_status can yield: Err(JsonRpc) for a transport or a
\* decoding failure, or GetTransactionStatusResponse { id, status, results }.
StatusReplies ==
    {[kind |-> k, id |-> "", status |-> "", results |-> << >>] :
        k \in {"transport", "decode"}}
    \cup {[kind |-> "ok", id |-> i, status |-> s, results |-> r] :
            i \in Ids, s \in Statuses, r \in ResultLists}

NoReply == [kind |-> "none", id |-> "", status |-> "", results |-> << >>]
NoAck == [kind |-> "none", id |-> "", status |-> ""]

(* ------------------------------ outcomes ------------------------------- *)

\* Result<Vec<TransactionStatusResult>, Error>
Outcome(k, r, s) == [kind |-> k, results |-> r, status |-> s]
NoOutcome == Outcome("none", << >>, "")
OkResults(r) == Outcome("Ok", r, "")
ErrXdr == Outcome("Xdr", << >>, "")
\* Error::JsonRpc(e); `why` stands for the jsonrpsee error e it wraps.
ErrJsonRpc(why) == Outcome("JsonRpc", << >>, why)
ErrTransactionSubmissionFailed == Outcome("TransactionSubmissionFailed", << >>, "")
ErrUnexpectedTransactionStatus(s) == Outcome("UnexpectedTransactionStatus", << >>, s)
ErrTransactionSubmissionTimeout == Outcome("TransactionSubmissionTimeout", << >>, "")

NoDuration == -1

\* The largest value of start.elapsed() the model tells apart.
MaxElapsed == (TimeoutSecs + 1) * UnitsPerSec + Slack

\* The counters of requests, answers, checks and sleeps are followed up to
\* this value, above the TimeoutSecs + 2 polls a call can make.
MaxCount == TimeoutSecs + 2 + Slack
Inc(n) == IF n < MaxCount THEN n + 1 ELSE n

\* The log of a call's events is kept up to this length, above the four
\* events of each loop iteration plus the request, the print and the return.
MaxLog == 4 * MaxCount + 3

VARIABLES
    base_url,    \* Client.base_url
    task,        \* per call of send_transaction: its locals and what it did
    node,        \* per call: what the node answered (history)
    account,     \* a call of get_account by another caller
    sim,         \* a call of simulate_transaction
    events       \* a call of get_events

vars == <<base_url, task, node, account, sim, events>>

(* A task's record:                                                        *)
(*   pc        where the task is: "idle" (not called yet), "awaitSend",    *)
(*             "awaitStatus", "sleep" (the three await points), "done"      *)
(*   tx        the envelope passed in                                       *)
(*   id,status the fields of the acknowledgment                             *)
(*   elapsed   ticks since `start = Instant::now()`                         *)
(*   response  `response` of the current loop iteration                     *)
(*   duration  `duration` of the current loop iteration                     *)
(*   sleepLeft ticks the pending sleep still has to last                    *)
(*   outcome   the value returned to the caller                             *)
(*   sends, polls     sendTransaction / getTransactionStatus requests sent  *)
(*   pollIds          the ids the getTransactionStatus requests carried     *)
(*   checks, sleeps   elapsed-time checks made, sleeps begun                *)
(*   printed          lines written to stderr                               *)
(*   returns          times the call returned                               *)
(*   log       what the call did, in order: "send" (sendTransaction request *)
(*             sent), "poll" (getTransactionStatus request sent), "pending" *)
(*             (that arm of the match taken), "check" (elapsed time read    *)
(*             and compared), "sleep" (sleep begun), "print" (status line   *)
(*             written to stderr), "return"                                 *)
NewTask ==
    [pc |-> "idle", tx |-> "", id |-> "", status |-> "", elapsed |-> 0,
     response |-> NoReply, duration |-> NoDuration, sleepLeft |-> 0,
     outcome |-> NoOutcome, sends |-> 0, polls |-> 0, pollIds |-> {},
     checks |-> 0, sleeps |-> 0, printed |-> 0, returns |-> 0, log |-> << >>]

\* What the node has answered to one call so far:
\*   ack       its reply to sendTransaction
\*   answers   the replies it gave to getTransactionStatus requests
\*   pendings  those of them that said `pending`
\*   last      the latest of them
NewNode == [ack |-> NoAck, answers |-> 0, pendings |-> 0, last |-> NoReply]

Answered(n, r) ==
    [n EXCEPT !.answers = Inc(@),
              !.pendings = IF r.kind = "ok" /\ r.status = "pending" THEN Inc(@) ELSE @,
              !.last = r]

(* --------------------------- pure helpers ------------------------------ *)

\* Client::client(): HttpClientBuilder::build(url) fails on a URL it cannot
\* parse, and `?` turns that into Error::JsonRpc.
ClientBuilds(url) == url = "http://node:8000"

\* Variant of to_xdr_base64: the encoding error dropped, an empty string sent.
to_xdr_base64_or_default(t) ==
    IF t = "unencodable" THEN [ok |-> TRUE, val |-> ""]
    ELSE [ok |-> TRUE, val |-> "base64:" \o t]

\* tx.to_xdr_base64(): Ok(wire string) or Err(XdrError).
to_xdr_base64(t) ==
    IF t = "unencodable" THEN [ok |-> FALSE, val |-> ""]
    ELSE [ok |-> TRUE, val |-> "base64:" \o t]

\* Duration::as_secs(): whole seconds, the fraction dropped.
as_secs(d) == d \div UnitsPerSec

\* Variants of TimedOut: the ceiling compared with the unrounded duration;
\* no ceiling at all.
TimedOutFractional(d) == d > TimeoutSecs * UnitsPerSec
TimedOutNever(d) == FALSE

\* Variant of TimedOut: the ceiling one second too high.
TimedOutLate(d) == as_secs(d) > TimeoutSecs + 1

\* `duration.as_secs() > 10`
TimedOut(d) == as_secs(d) > TimeoutSecs

\* Variants of MatchArm: an unrecognised status taken for `pending`;
\* `pending` taken for `success`.
MatchArmLenient(s) ==
    CASE s = "success" -> "success"
      [] s = "error"   -> "error"
      [] OTHER         -> "pending"
MatchArmEager(s) ==
    CASE s \in {"success", "pending"} -> "success"
      [] s = "error"   -> "error"
      [] OTHER         -> "_"

\* The arm of `match response.status.as_str()` that is taken.
MatchArm(s) ==
    CASE s = "success" -> "success"
      [] s = "error"   -> "error"
      [] s = "pending" -> "pending"
      [] OTHER         -> "_"

\* Variant of PollId: the id of the latest status response, once there is one.
PollIdFromResponse(ackId, resp) == IF resp.kind = "ok" THEN resp.id ELSE ackId

\* The id handed to get_transaction_status: `&id`, the acknowledgment's.
PollId(ackId, resp) == ackId

\* Variants of AckShortCircuit: no check of the acknowledgment; a `success`
\* acknowledgment taken for the result.
AckShortCircuitNone(st) == NoOutcome
AckShortCircuitOnSuccess(st) ==
    CASE st = "error"   -> ErrTransactionSubmissionFailed
      [] st = "success" -> OkResults(<< >>)
      [] OTHER          -> NoOutcome

\* `if status == "error" { return Err(TransactionSubmissionFailed) }`: what
\* the acknowledgment's status alone makes the call return, NoOutcome if
\* nothing.
AckShortCircuit(st) ==
    IF st = "error" THEN ErrTransactionSubmissionFailed ELSE NoOutcome

\* Variant of SuccessOutcome: the results left behind.
SuccessOutcomeEmpty(resp) == OkResults(<< >>)

\* `return Ok(response.results)`
SuccessOutcome(resp) == OkResults(resp.results)

\* Variant of PollFailure: a failed poll reported as a failed submission.
PollFailureAsSubmission(r) == ErrTransactionSubmissionFailed

\* `self.get_transaction_status(&id).await?`: the Err of a poll, passed on.
PollFailure(r) == ErrJsonRpc(r.kind)

\* The call does e next.
Emit(s, e) == [s EXCEPT !.log = IF Len(@) < MaxLog THEN Append(@, e) ELSE @]

\* `return ...`: the call ends with outcome o.
Return(s, o) ==
    [Emit(s, "return") EXCEPT !.pc = "done", !.outcome = o, !.returns = @ + 1]

\* `eprintln!("{}", response.status)`
eprintln(s) == [Emit(s, "print") EXCEPT !.printed = @ + 1]

\* self.get_transaction_status(&id): build the client, send the request and
\* wait for the reply.
get_transaction_status(url, s, ackId) ==
    IF ~ClientBuilds(url) THEN Return(s, ErrJsonRpc("build"))
    ELSE [Emit(s, "poll") EXCEPT
                   !.pc = "awaitStatus",
                   !.polls = Inc(@),
                   !.pollIds = @ \cup {PollId(ackId, s.response)},
                   !.response = NoReply,
                   !.duration = NoDuration]

(* ------------------- send_transaction, await to await ------------------ *)

\* Entry to the first await: client()?, to_xdr_base64()?, request sent.
SendTransactionEnter(url, s, t) ==
    LET s1 == [s EXCEPT !.tx = t] IN
    IF ~ClientBuilds(url) THEN Return(s1, ErrJsonRpc("build"))
    ELSE IF ~to_xdr_base64(t).ok THEN Return(s1, ErrXdr)
    ELSE [Emit(s1, "send") EXCEPT !.pc = "awaitSend", !.sends = @ + 1]

\* The sendTransaction reply r arrives: map_err, destructuring, the check
\* of the acknowledgment, `start = Instant::now()` and the first poll.
SendTransactionAcked(url, s, r) ==
    IF r.kind # "ok" THEN Return(s, ErrTransactionSubmissionFailed)
    ELSE
      LET s1 == [s EXCEPT !.id = r.id, !.status = r.status] IN
      IF AckShortCircuit(s1.status) # NoOutcome
      THEN Return(s1, AckShortCircuit(s1.status))
      ELSE get_transaction_status(url, [s1 EXCEPT !.elapsed = 0], s1.id)

\* Variant of SuccessArm: the status line left to the caller to print.
SuccessArmSilent(s) == Return(s, SuccessOutcome(s.response))

\* The `"success"` arm: the status line is printed, then the results are
\* returned.
SuccessArm(s) == Return(eprintln(s), SuccessOutcome(s.response))

\* After the match, on `pending`: the elapsed time is read and compared,
\* then the call returns or starts its sleep.
CheckAndSleep(s) ==
    LET s2 == [Emit(s, "check") EXCEPT !.checks = Inc(@), !.duration = s.elapsed]
    IN
    IF TimedOut(s2.duration)
    THEN Return(s2, ErrTransactionSubmissionTimeout)
    ELSE [Emit(s2, "sleep") EXCEPT !.pc = "sleep", !.sleeps = Inc(@),
                                   !.sleepLeft = SleepSecs * UnitsPerSec]

\* Variant of SendTransactionPolled: the elapsed time is checked first, for
\* whatever the node answered, and the match comes after.
SendTransactionPolledCheckFirst(s, r) ==
    IF r.kind # "ok" THEN Return(s, PollFailure(r))
    ELSE
      LET s1 == [Emit([s EXCEPT !.response = r], "check") EXCEPT
                    !.checks = Inc(@), !.duration = s.elapsed]
          arm == MatchArm(r.status)
      IN
      IF TimedOut(s1.duration) THEN Return(s1, ErrTransactionSubmissionTimeout)
      ELSE
        CASE arm = "success" -> SuccessArm(s1)
          [] arm = "error" -> Return(s1, ErrTransactionSubmissionFailed)
          [] arm = "_" ->
               Return(s1, ErrUnexpectedTransactionStatus(s1.response.status))
          [] arm = "pending" ->
               [Emit(Emit(s1, "pending"), "sleep") EXCEPT
                   !.pc = "sleep", !.sleeps = Inc(@),
                   !.sleepLeft = SleepSecs * UnitsPerSec]

\* A getTransactionStatus reply r arrives: `?`, the match, the elapsed-time
\* check and the start of the sleep.
SendTransactionPolled(s, r) ==
    IF r.kind # "ok" THEN Return(s, PollFailure(r))
    ELSE
      LET s1 == [s EXCEPT !.response = r]
          arm == MatchArm(r.status)
      IN
      CASE arm = "success" ->
             SuccessArm(s1)
        [] arm = "error" ->
             Return(s1, ErrTransactionSubmissionFailed)
        [] arm = "_" ->
             Return(s1, ErrUnexpectedTransactionStatus(s1.response.status))
        [] arm = "pending" ->
             CheckAndSleep(Emit(s1, "pending"))

\* The sleep is over: next iteration of the loop, next poll.
SendTransactionWoke(url, s) ==
    get_transaction_status(url, s, s.id)

\* One tick of the clock, seen from one task: `start.elapsed()` grows while
\* the loop runs, a pending sleep comes one tick closer to its end.
Elapse(s) ==
    IF s.pc \in {"awaitStatus", "sleep"}
    THEN [s EXCEPT !.elapsed = Min(@ + 1, MaxElapsed),
                   !.sleepLeft = Max(@ - 1, 0)]
    ELSE s

\* get_account up to its await: client()?, request sent.
GetAccountEnter(url, a) ==
    IF ~ClientBuilds(url) THEN [pc |-> "done", outcome |-> "JsonRpc"]
    ELSE [a EXCEPT !.pc = "await"]

\* The getAccount reply arrives: Ok(GetAccountResponse) or the Err passed on.
GetAccountReplied(a, kind) ==
    [pc |-> "done", outcome |-> IF kind = "ok" THEN "Ok" ELSE "JsonRpc"]

(* ------------------------- simulate_transaction ------------------------ *)

\* Option<String>
None == [some |-> FALSE, val |-> ""]
Some(e) == [some |-> TRUE, val |-> e]

\* SimulateTransactionResponse { footprint, cost, error }
SimResponse(err) ==
    [kind |-> "ok", footprint |-> "fp", cost |-> <<"cpu", "mem">>, error |-> err]
NoSimResponse ==
    [kind |-> "none", footprint |-> "", cost |-> << >>, error |-> None]

\* What the simulateTransaction request can yield: a transport failure, a
\* body that does not decode, or a response whose `error` is absent, the
\* empty string or a message.
SimReplies ==
    {[NoSimResponse EXCEPT !.kind = k] : k \in {"transport", "decode"}}
    \cup {SimResponse(err) : err \in {None, Some(""), Some("host error")}}

\* Result<SimulateTransactionResponse, Error>
SimOutcome(k, r, e) == [kind |-> k, response |-> r, error |-> e]
NoSimOutcome == SimOutcome("none", NoSimResponse, "")
OkSim(r) == SimOutcome("Ok", r, "")
ErrTransactionSimulationFailed(e) ==
    SimOutcome("TransactionSimulationFailed", NoSimResponse, e)

\* The call of simulate_transaction: where it is, its envelope, the
\* requests it sent (method names, in order), the node's reply, its result.
NewSim ==
    [pc |-> "idle", tx |-> "", requests |-> << >>, reply |-> NoSimResponse,
     outcome |-> NoSimOutcome]

\* Variants of MatchError: an empty error string taken for no error; the
\* error field not looked at.
MatchErrorNonEmpty(r) ==
    IF r.error.some /\ r.error.val # "" THEN ErrTransactionSimulationFailed(r.error.val)
    ELSE OkSim(r)
MatchErrorIgnored(r) == OkSim(r)

\* `match response.error { None => Ok(response), Some(e) => Err(..(e)) }`
MatchError(r) ==
    IF r.error.some THEN ErrTransactionSimulationFailed(r.error.val)
    ELSE OkSim(r)

\* simulate_transaction up to its await: to_xdr_base64()?, client()?, the
\* request sent.
SimulateTransactionEnter(url, s, t) ==
    LET s1 == [s EXCEPT !.tx = t] IN
    IF ~to_xdr_base64(t).ok
    THEN [s1 EXCEPT !.pc = "done", !.outcome = SimOutcome("Xdr", NoSimResponse, "")]
    ELSE IF ~ClientBuilds(url)
    THEN [s1 EXCEPT !.pc = "done",
                    !.outcome = SimOutcome("JsonRpc", NoSimResponse, "build")]
    ELSE [s1 EXCEPT !.pc = "await",
                    !.requests = Append(@, "simulateTransaction")]

\* The reply r arrives: `?`, then the match on response.error.
SimulateTransactionReplied(s, r) ==
    IF r.kind # "ok"
    THEN [s EXCEPT !.pc = "done", !.reply = r,
                   !.outcome = SimOutcome("JsonRpc", NoSimResponse, r.kind)]
    ELSE [s EXCEPT !.pc = "done", !.reply = r, !.outcome = MatchError(r)]

(* ------------------------------ get_events ----------------------------- *)

\* JSON values: a kind and what it holds.  An object is a function from its
\* keys to JSON values.
JString(x) == <<"string", x>>
JNumber(n) == <<"number", n>>
JArray(xs) == <<"array", xs>>
JObject(m) == <<"object", m>>

\* serde_json::Map::new() / BTreeMap::new()
EmptyMap == [k \in {} |-> JString("")]

\* Map::insert(k, v)
Insert(m, k, v) == [x \in DOMAIN m \cup {k} |-> IF x = k THEN v ELSE m[x]]

\* `xs.into()` for a slice of strings: the JSON array of its strings.
StringsToJson(xs) == JArray([i \in 1..Len(xs) |-> JString(xs[i])])

Digit(d) ==
    CASE d = 0 -> "0" [] d = 1 -> "1" [] d = 2 -> "2" [] d = 3 -> "3"
      [] d = 4 -> "4" [] d = 5 -> "5" [] d = 6 -> "6" [] d = 7 -> "7"
      [] d = 8 -> "8" [] d = 9 -> "9"

\* u32::to_string(): the decimal digits, no sign, no leading zero.
RECURSIVE to_string(_)
to_string(n) == IF n < 10 THEN Digit(n) ELSE to_string(n \div 10) \o Digit(n % 10)

\* Variant of EventTypeParam: `all` written out like the other kinds.
EventTypeParamAll(t) ==
    CASE t = "All"      -> Some("all")
      [] t = "Contract" -> Some("contract")
      [] t = "System"   -> Some("system")
      [] OTHER          -> None

\* `event_type.and_then(|t| match t { .. })`: the value of `type`, if any.
\* t is "None" for no event type given.
EventTypeParam(t) ==
    CASE t = "Contract" -> Some("contract")
      [] t = "System"   -> Some("system")
      [] OTHER          -> None

\* The `filters` map: `type` if there is one, `topics`, `contractIds`.
Filters(event_type, contract_ids, topics) ==
    LET ty == EventTypeParam(event_type)
        f0 == IF ty.some THEN Insert(EmptyMap, "type", JString(ty.val)) ELSE EmptyMap
        f1 == Insert(f0, "topics", StringsToJson(topics))
    IN  Insert(f1, "contractIds", StringsToJson(contract_ids))

\* Option<usize>
NoLimit == [some |-> FALSE, val |-> 0]
SomeLimit(n) == [some |-> TRUE, val |-> n]

\* Variant of Pagination: a limit of 0 written when none is given.
PaginationDefault(limit) ==
    Insert(EmptyMap, "limit", JNumber(IF limit.some THEN limit.val ELSE 0))

\* The `pagination` map: `limit` if the caller gave one.
Pagination(limit) ==
    IF limit.some THEN Insert(EmptyMap, "limit", JNumber(limit.val)) ELSE EmptyMap

\* The parameter object of getEvents.
EventsParams(start_ledger, end_ledger, event_type, contract_ids, topics, limit) ==
    LET o1 == Insert(EmptyMap, "startLedger", JString(to_string(start_ledger)))
        o2 == Insert(o1, "endLedger", JString(to_string(end_ledger)))
        o3 == Insert(o2, "filters",
                     JArray(<<JObject(Filters(event_type, contract_ids, topics))>>))
    IN  Insert(o3, "pagination", JObject(Pagination(limit)))

\* The call of get_events: where it is, its arguments, the parameter object
\* it built, the requests it sent, its result.
NewEvents ==
    [pc |-> "idle", args |-> << >>, object |-> EmptyMap, requests |-> << >>,
     outcome |-> "none"]

\* get_events up to its await: the object built, client()?, the request sent.
GetEventsEnter(url, s, a) ==
    LET s1 == [s EXCEPT !.args = a,
                        !.object = EventsParams(a[1], a[2], a[3], a[4], a[5], a[6])]
    IN
    IF ~ClientBuilds(url) THEN [s1 EXCEPT !.pc = "done", !.outcome = "JsonRpc"]
    ELSE [s1 EXCEPT !.pc = "await", !.requests = Append(@, "getEvents")]

\* The reply arrives: Ok(Some(events)), Ok(None) or the Err passed on.
GetEventsReplied(s, kind) ==
    [s EXCEPT !.pc = "done",
              !.outcome = CASE kind = "events" -> "Ok(Some)"
                            [] kind = "null"   -> "Ok(None)"
                            [] OTHER           -> "JsonRpc"]

(* ------------------------------ actions -------------------------------- *)

Init ==
    /\ base_url \in Urls
    /\ task = [c \in Calls |-> NewTask]
    /\ node = [c \in Calls |-> NewNode]
    /\ account = [pc |-> "idle", outcome |-> "none"]
    /\ sim = NewSim
    /\ events = NewEvents

\* A caller invokes send_transaction.
Call(c) ==
    /\ task[c].pc = "idle"
    /\ \E t \in Envelopes :
         task' = [task EXCEPT ![c] = SendTransactionEnter(base_url, @, t)]
    /\ UNCHANGED <<base_url, node, account, sim, events>>

\* The sendTransaction request of call c completes with a reply of `replies`.
SendTransactionReturns(c, replies) ==
    /\ task[c].pc = "awaitSend"
    /\ \E r \in replies :
         /\ task' = [task EXCEPT ![c] = SendTransactionAcked(base_url, @, r)]
         /\ node' = [node EXCEPT ![c].ack = r]
    /\ UNCHANGED <<base_url, account, sim, events>>

\* A getTransactionStatus request of call c completes.
GetTransactionStatusReturns(c, replies) ==
    /\ task[c].pc = "awaitStatus"
    /\ \E r \in replies :
         /\ task' = [task EXCEPT ![c] = SendTransactionPolled(@, r)]
         /\ node' = [node EXCEPT ![c] = Answered(@, r)]
    /\ UNCHANGED <<base_url, account, sim, events>>

\* tokio's sleep of call c completes, no earlier than after its duration.
SleepReturns(c) ==
    /\ task[c].pc = "sleep"
    /\ task[c].sleepLeft = 0
    /\ task' = [task EXCEPT ![c] = SendTransactionWoke(base_url, @)]
    /\ UNCHANGED <<base_url, node, account, sim, events>>

\* The clock advances by one tick, for every task alike.
Tick ==
    /\ task' = [c \in Calls |-> Elapse(task[c])]
    /\ task' # task
    /\ UNCHANGED <<base_url, node, account, sim, events>>

(* One call alone on the Client, the node free to answer anything. *)

Solo == {1}

Step(c) ==
    \/ Call(c)
    \/ SendTransactionReturns(c, SendReplies)
    \/ GetTransactionStatusReturns(c, StatusReplies)
    \/ SleepReturns(c)

Next == Tick \/ \E c \in Solo : Step(c)

Spec == Init /\ [][Next]_vars

\* Every RPC call eventually returns, every sleep eventually ends, and time
\* passes.
Fairness ==
    /\ WF_vars(Tick)
    /\ \A c \in Solo :
         /\ WF_vars(SendTransactionReturns(c, SendReplies))
         /\ WF_vars(GetTransactionStatusReturns(c, StatusReplies))
         /\ WF_vars(SleepReturns(c))

FairSpec == Spec /\ Fairness

(* Concurrent calls on the one Client.  The node's answers are drawn from  *)
(* narrower sets, it says `pending` at most MaxConcPendings times to one   *)
(* call, and the clock stops at MaxConcElapsed.                            *)

ConcSendReplies ==
    {r \in SendReplies : r.kind \in {"transport", "ok"}
                         /\ r.status \in {"", "pending", "error"}}

ConcStatusReplies(n) ==
    {r \in StatusReplies :
        /\ r.kind \in {"transport", "ok"}
        /\ r.status \in {"", "pending", "success", "error", "unknown"}
        /\ r.results = (IF r.status = "success" THEN <<"xdr1">> ELSE << >>)
        /\ r.status = "pending" => n.pendings < MaxConcPendings}

\* Another caller invokes get_account on the same Client.
GetAccountCall ==
    /\ account.pc = "idle"
    /\ account' = GetAccountEnter(base_url, account)
    /\ UNCHANGED <<base_url, task, node, sim, events>>

GetAccountReturns ==
    /\ account.pc = "await"
    /\ \E kind \in {"ok", "transport"} : account' = GetAccountReplied(account, kind)
    /\ UNCHANGED <<base_url, task, node, sim, events>>

GetAccountStep == GetAccountCall \/ GetAccountReturns

\* Variant of ConcStep: the sleep of one call (std::thread::sleep) holds up
\* the thread that runs the other calls.
ConcStepBlocked(c) ==
    /\ \A d \in Calls \ {c} : task[d].pc # "sleep"
    /\ \/ Call(c)
       \/ SendTransactionReturns(c, ConcSendReplies)
       \/ GetTransactionStatusReturns(c, ConcStatusReplies(node[c]))
       \/ SleepReturns(c)

\* A step of call c; the tasks are scheduled independently, each runs from
\* one of its await points to the next.
ConcStep(c) ==
    \/ Call(c)
    \/ SendTransactionReturns(c, ConcSendReplies)
    \/ GetTransactionStatusReturns(c, ConcStatusReplies(node[c]))
    \/ SleepReturns(c)

ConcTick ==
    /\ \A c \in Calls :
         task[c].pc \in {"awaitStatus", "sleep"} => task[c].elapsed < MaxConcElapsed
    /\ Tick

ConcNext == ConcTick \/ GetAccountStep \/ \E c \in Calls : ConcStep(c)

ConcSpec == Init /\ [][ConcNext]_vars

(* simulate_transaction and get_events, each called once. *)

\* Sequences over S of length up to n.
SeqsUpTo(S, n) == UNION {[1..k -> S] : k \in 0..n}

Ledgers == {100, 200, 2147483647}
EventTypes == {"None", "All", "Contract", "System"}
ContractIdLists == SeqsUpTo({"C123", "C456"}, MaxContractIds)
TopicLists == SeqsUpTo({"AAAADwAAAAh0cmFuc2Zlcg=="}, MaxTopics)
Limits == {NoLimit, SomeLimit(0), SomeLimit(10)}

SimulateCall ==
    /\ sim.pc = "idle"
    /\ \E t \in Envelopes : sim' = SimulateTransactionEnter(base_url, sim, t)
    /\ UNCHANGED <<base_url, task, node, account, events>>

SimulateReturns ==
    /\ sim.pc = "await"
    /\ \E r \in SimReplies : sim' = SimulateTransactionReplied(sim, r)
    /\ UNCHANGED <<base_url, task, node, account, events>>

GetEventsCall ==
    /\ events.pc = "idle"
    /\ \E s \in Ledgers, e \in Ledgers, t \in EventTypes, c \in ContractIdLists,
          tp \in TopicLists, l \in Limits :
          events' = GetEventsEnter(base_url, events, <<s, e, t, c, tp, l>>)
    /\ UNCHANGED <<base_url, task, node, account, sim>>

GetEventsReturns ==
    /\ events.pc = "await"
    /\ \E kind \in {"events", "null", "transport"} :
          events' = GetEventsReplied(events, kind)
    /\ UNCHANGED <<base_url, task, node, account, sim>>

QueryNext == SimulateCall \/ SimulateReturns \/ GetEventsCall \/ GetEventsReturns

QuerySpec == Init /\ [][QueryNext]_vars

(* ------------------------------ claims -------------------------------- *)

Known == {"pending", "success", "error"}

\* The latest status answer of the node to call c said st.
LastSaid(c, st) == node[c].last.kind = "ok" /\ node[c].last.status = st

\* C1: when the acknowledgment is not an error and the node answers
\* `pending` N times and then `success`, the call has issued exactly N+1
\* status polls (N sleeps, N elapsed-time checks), has returned once, and
\* what it returned is Ok with exactly the results of the success answer.
C1_PendingsThenSuccess ==
    \A c \in Calls :
        LastSaid(c, "success") =>
            /\ task[c].pc = "done"
            /\ task[c].outcome = OkResults(node[c].last.results)
            /\ node[c].answers = node[c].pendings + 1
            /\ task[c].polls = node[c].pendings + 1
            /\ task[c].sleeps = node[c].pendings
            /\ task[c].returns = 1

\* Two `pending` answers, then a `success` whose result list is empty.
C1_Witness ==
    \E c \in Calls :
        /\ LastSaid(c, "success")
        /\ node[c].pendings = 2
        /\ node[c].last.results = << >>
        /\ task[c].polls = 3
        /\ task[c].outcome.kind = "Ok"

\* C2: when the node answers `error` after k `pending` answers, the call
\* has issued exactly k+1 status polls and returned
\* TransactionSubmissionFailed; when the acknowledgment itself says `error`,
\* no status poll is issued and the call returns TransactionSubmissionFailed.
C2_ErrorAtK ==
    \A c \in Calls :
        /\ LastSaid(c, "error") =>
              /\ task[c].pc = "done"
              /\ task[c].outcome = ErrTransactionSubmissionFailed
              /\ node[c].answers = node[c].pendings + 1
              /\ task[c].polls = node[c].pendings + 1
        /\ (node[c].ack.kind = "ok" /\ node[c].ack.status = "error") =>
              /\ task[c].pc = "done"
              /\ task[c].outcome = ErrTransactionSubmissionFailed
              /\ task[c].polls = 0
              /\ node[c].answers = 0

C2_Witness ==
    \E c \in Calls :
        /\ LastSaid(c, "error")
        /\ node[c].pendings = 2
        /\ task[c].polls = 3
        /\ task[c].outcome = ErrTransactionSubmissionFailed

\* C3: a status answer outside {pending, success, error} ends the call at
\* once with UnexpectedTransactionStatus carrying that very string: no poll
\* after it, no sleep and no elapsed-time check for it.
C3_UnexpectedStatus ==
    \A c \in Calls :
        (node[c].last.kind = "ok" /\ node[c].last.status \notin Known) =>
            /\ task[c].pc = "done"
            /\ task[c].outcome = ErrUnexpectedTransactionStatus(node[c].last.status)
            /\ task[c].polls = node[c].answers
            /\ task[c].sleeps = node[c].pendings
            /\ task[c].checks = node[c].pendings
            /\ task[c].sleepLeft = 0

C3_Witness ==
    \E c \in Calls :
        /\ LastSaid(c, "PENDING")
        /\ node[c].pendings = 1
        /\ task[c].outcome = ErrUnexpectedTransactionStatus("PENDING")

\* The latest answer of the node to call c said `pending` and the call has
\* made its elapsed-time check for it, at `duration` ticks.
CheckedPending(c) == LastSaid(c, "pending") /\ task[c].duration # NoDuration

\* C4 as stated: after a `pending` answer, an elapsed time above the
\* 10-second ceiling by any amount (10.5 s included) makes the call return
\* TransactionSubmissionTimeout without a further poll.
C4_AnyExcessTimesOut ==
    \A c \in Calls :
        (CheckedPending(c) /\ task[c].duration > TimeoutSecs * UnitsPerSec) =>
            /\ task[c].pc = "done"
            /\ task[c].outcome = ErrTransactionSubmissionTimeout
            /\ task[c].polls = node[c].answers

\* C4, amended: after a `pending` answer the call returns
\* TransactionSubmissionTimeout, without a further poll, exactly when the
\* elapsed time is 11 seconds or more (its whole seconds exceed 10); with
\* less, 10.5 s included, it goes to sleep and polls again.
C4_WholeSecondsTimeOut ==
    \A c \in Calls :
        CheckedPending(c) =>
            IF task[c].duration >= (TimeoutSecs + 1) * UnitsPerSec
            THEN /\ task[c].pc = "done"
                 /\ task[c].outcome = ErrTransactionSubmissionTimeout
                 /\ task[c].polls = node[c].answers
                 /\ task[c].sleeps = node[c].pendings - 1
            ELSE /\ task[c].pc = "sleep"
                 /\ task[c].outcome = NoOutcome
                 /\ task[c].sleeps = node[c].pendings

\* A `pending` answer checked at exactly 11 s: timeout.
C4_Witness ==
    \E c \in Calls :
        /\ CheckedPending(c)
        /\ task[c].duration = (TimeoutSecs + 1) * UnitsPerSec
        /\ task[c].outcome = ErrTransactionSubmissionTimeout

\* C5: an acknowledgment that decodes and whose status is anything but
\* `error` (`success`, `pending`, an unrecognised string) never ends the
\* call by itself: a status poll is issued at once, and the call returns
\* only after the node has answered at least one status poll.
C5_AckOnlyShortCircuitsOnError ==
    \A c \in Calls :
        (node[c].ack.kind = "ok" /\ node[c].ack.status # "error") =>
            /\ task[c].polls >= 1
            /\ task[c].pc # "awaitSend"
            /\ task[c].pc = "done" => node[c].answers >= 1
            /\ node[c].answers = 0 => task[c].outcome = NoOutcome

\* A `success` acknowledgment followed by an `error` status answer.
C5_Witness ==
    \E c \in Calls :
        /\ node[c].ack.kind = "ok"
        /\ node[c].ack.status = "success"
        /\ LastSaid(c, "error")
        /\ task[c].outcome = ErrTransactionSubmissionFailed

\* C6: a call returns at most once, it has an outcome exactly when it has
\* returned, and while the latest status answer is `pending` the call either
\* goes on (sleeping, or polling again) or has returned
\* TransactionSubmissionTimeout: never Ok, never another error.
C6_OneOutcomeNoEarlyReturn ==
    \A c \in Calls :
        /\ task[c].returns = (IF task[c].pc = "done" THEN 1 ELSE 0)
        /\ (task[c].outcome # NoOutcome) <=> (task[c].pc = "done")
        /\ LastSaid(c, "pending") =>
              \/ /\ task[c].pc \in {"sleep", "awaitStatus"}
                 /\ task[c].outcome = NoOutcome
              \/ /\ task[c].pc = "done"
                 /\ task[c].outcome = ErrTransactionSubmissionTimeout

\* After a `pending` answer the call polls a second time.
C6_Witness ==
    \E c \in Calls :
        /\ LastSaid(c, "pending")
        /\ task[c].pc = "awaitStatus"
        /\ task[c].polls = 2

\* C8: a transport or decoding failure of sendTransaction ends the call with
\* TransactionSubmissionFailed, one request sent and no status poll; a
\* transport or decoding failure of a status poll ends the call at once with
\* that very failure as Error::JsonRpc, no request sent after it.
C8_FailuresEndTheCall ==
    \A c \in Calls :
        /\ node[c].ack.kind \in {"transport", "decode"} =>
              /\ task[c].pc = "done"
              /\ task[c].outcome = ErrTransactionSubmissionFailed
              /\ task[c].sends = 1
              /\ task[c].polls = 0
        /\ node[c].last.kind \in {"transport", "decode"} =>
              /\ task[c].pc = "done"
              /\ task[c].outcome = ErrJsonRpc(node[c].last.kind)
              /\ task[c].sends = 1
              /\ task[c].polls = node[c].answers
              /\ task[c].sleeps = node[c].pendings

\* The second status poll fails to decode.
C8_Witness ==
    \E c \in Calls :
        /\ node[c].last.kind = "decode"
        /\ node[c].answers = 2
        /\ task[c].outcome = ErrJsonRpc("decode")

\* C9: every status poll of a call carries the id of that call's
\* acknowledgment, whatever `id` the status responses carry.
C9_PollsUseAckId ==
    \A c \in Calls :
        /\ task[c].polls > 0 =>
              /\ task[c].pollIds = {node[c].ack.id}
              /\ task[c].id = node[c].ack.id
        /\ task[c].polls = 0 => task[c].pollIds = {}

\* A second poll issued after a status response whose id is another one.
C9_Witness ==
    \E c \in Calls :
        /\ task[c].polls = 2
        /\ LastSaid(c, "pending")
        /\ node[c].last.id # node[c].ack.id

\* A call is in its polling loop.
Polling(c) == task[c].pc \in {"awaitStatus", "sleep"}

\* C7: when every RPC call eventually returns, every sleep ends and time
\* passes, a call that has started polling eventually returns, with Ok,
\* with an error (TransactionSubmissionFailed, UnexpectedTransactionStatus
\* or the poll's own JsonRpc error) or with TransactionSubmissionTimeout: no
\* run of `pending` answers keeps the loop going forever.
C7_PollingTerminates ==
    \A c \in Calls :
        Polling(c) ~>
            /\ task[c].pc = "done"
            /\ task[c].outcome.kind \in
                 {"Ok", "TransactionSubmissionFailed", "UnexpectedTransactionStatus",
                  "JsonRpc", "TransactionSubmissionTimeout"}

\* The node said `pending` twelve times and the call gave up.
C7_Witness ==
    \E c \in Calls :
        /\ node[c].pendings = TimeoutSecs + 2
        /\ task[c].pc = "done"
        /\ task[c].outcome = ErrTransactionSubmissionTimeout

\* What the inputs of call c alone (the Client's URL, its envelope, the
\* node's answers to it, the elapsed time it read) make it return.
OwnOutcome(c) ==
    CASE task[c].pc # "done"                    -> NoOutcome
      [] base_url # "http://node:8000"          -> ErrJsonRpc("build")
      [] task[c].tx = "unencodable"             -> ErrXdr
      [] node[c].ack.kind # "ok"                -> ErrTransactionSubmissionFailed
      [] node[c].ack.status = "error"           -> ErrTransactionSubmissionFailed
      [] node[c].last.kind # "ok"               -> ErrJsonRpc(node[c].last.kind)
      [] node[c].last.status = "success"        -> OkResults(node[c].last.results)
      [] node[c].last.status = "error"          -> ErrTransactionSubmissionFailed
      [] node[c].last.status = "pending"        -> ErrTransactionSubmissionTimeout
      [] OTHER -> ErrUnexpectedTransactionStatus(node[c].last.status)

\* Call c took a step: something other than its reading of the clock changed.
Moved(c) ==
    \/ node'[c] # node[c]
    \/ [task'[c] EXCEPT !.elapsed = 0, !.sleepLeft = 0]
         # [task[c] EXCEPT !.elapsed = 0, !.sleepLeft = 0]

\* Call d has something to do: it is not called yet, or the reply or the
\* timer it waits for can arrive.
Ready(d) ==
    \/ task[d].pc \in {"idle", "awaitSend", "awaitStatus"}
    \/ task[d].pc = "sleep" /\ task[d].sleepLeft = 0

\* In every state: polls carry the call's own id, the outcome is the one the
\* call's own inputs give, and a sleeping call holds up nobody.
C10_State ==
    /\ \A c \in Calls :
          /\ task[c].pollIds \subseteq {node[c].ack.id}
          /\ task[c].polls > 0 => task[c].pollIds = {node[c].ack.id}
          /\ task[c].outcome = OwnOutcome(c)
    /\ \A c \in Calls : task[c].pc = "sleep" =>
          /\ \A d \in Calls \ {c} : Ready(d) => ENABLED ConcStep(d)
          /\ account.pc # "done" => ENABLED GetAccountStep

\* In every step: the base URL stays, and what one call does changes nothing
\* of another call nor of the get_account call.
C10_Step ==
    /\ base_url' = base_url
    /\ \A c \in Calls : Moved(c) =>
          /\ account' = account
          /\ \A d \in Calls \ {c} : task'[d] = task[d] /\ node'[d] = node[d]
    /\ account' # account => task' = task /\ node' = node

\* C10: concurrent calls on one Client do not interfere: each call's polls
\* carry its own id, each call's outcome is given by its own acknowledgment,
\* status answers and elapsed time, a step of one call changes nothing of the
\* others, the base URL is never modified, and while a call sleeps the
\* others can take their steps.
C10_NoInterference == [] C10_State /\ [][C10_Step]_vars

\* One call sleeps with one id while the other, holding another id, has
\* woken from its own sleep and polls again; get_account is in flight.
C10_Witness ==
    \E c, d \in Calls :
        /\ c # d
        /\ task[c].pc = "sleep"
        /\ task[d].pc = "awaitStatus"
        /\ task[d].polls = 2
        /\ node[c].ack.id # node[d].ack.id
        /\ task[c].elapsed # task[d].elapsed
        /\ account.pc = "await"

\* The number of events e in the log l.
Count(l, e) == Cardinality({i \in 1..Len(l) : l[i] = e})

\* C11: the status line is printed exactly once in a call that ends in
\* success, as the event right before its return, and never in a call that
\* ends otherwise nor while a call is still running (so not on `pending`).
C11_PrintOnceOnSuccess ==
    \A c \in Calls :
        LET l == task[c].log IN
        /\ task[c].printed = Count(l, "print")
        /\ task[c].printed = (IF task[c].outcome.kind = "Ok" THEN 1 ELSE 0)
        /\ task[c].outcome.kind = "Ok" =>
              /\ Len(l) >= 2
              /\ l[Len(l)] = "return"
              /\ l[Len(l) - 1] = "print"
        /\ task[c].pc # "done" => task[c].printed = 0

\* A success after two `pending` answers: one line printed.
C11_Witness ==
    \E c \in Calls :
        /\ LastSaid(c, "success")
        /\ node[c].pendings = 2
        /\ task[c].printed = 1
        /\ task[c].outcome.kind = "Ok"

\* The ceiling has passed on the clock of call c: 11 s or more since the
\* loop began.
Late(c) == task[c].elapsed >= (TimeoutSecs + 1) * UnitsPerSec

\* C15: the elapsed time is read only right after a `pending` answer. An
\* answer `success`, `error` or unrecognised that arrives after the ceiling
\* has passed gives Ok(results), TransactionSubmissionFailed or
\* UnexpectedTransactionStatus as at any other time, with no elapsed-time
\* check made for it; and TransactionSubmissionTimeout is returned only when
\* the latest answer was `pending`.
C15_CheckOnlyAfterPending ==
    \A c \in Calls :
        /\ task[c].checks = node[c].pendings
        /\ task[c].checks = Count(task[c].log, "check")
        /\ \A i \in 1..Len(task[c].log) :
              task[c].log[i] = "check" => i > 1 /\ task[c].log[i - 1] = "pending"
        /\ task[c].outcome = ErrTransactionSubmissionTimeout =>
              LastSaid(c, "pending")
        /\ (node[c].last.kind = "ok" /\ node[c].last.status # "pending") =>
              /\ task[c].outcome # ErrTransactionSubmissionTimeout
              /\ task[c].outcome =
                   (CASE node[c].last.status = "success" ->
                           OkResults(node[c].last.results)
                      [] node[c].last.status = "error" ->
                           ErrTransactionSubmissionFailed
                      [] OTHER ->
                           ErrUnexpectedTransactionStatus(node[c].last.status))

\* A first poll so slow that `success` arrives 11 s after the loop began:
\* the call still returns Ok.
C15_Witness ==
    \E c \in Calls :
        /\ Late(c)
        /\ LastSaid(c, "success")
        /\ node[c].answers = 1
        /\ task[c].outcome = OkResults(<<"xdr1">>)

\* The events of a call in their order: the request first and the first
\* poll right after the acknowledgment; a poll after that only right after a
\* sleep; a sleep only right after `pending` and its check, and followed by
\* nothing but a poll; a return never right after a sleep.
Ordered(l) ==
    \A i \in 1..Len(l) :
        /\ i = 1 => l[i] \in {"send", "return"}
        /\ l[i] = "send" => i = 1
        /\ l[i] = "poll" =>
              \/ i = 2 /\ l[1] = "send"
              \/ i > 2 /\ l[i - 1] = "sleep"
        /\ l[i] = "sleep" =>
              /\ i > 3
              /\ l[i - 1] = "check" /\ l[i - 2] = "pending" /\ l[i - 3] = "poll"
              /\ i < Len(l) => l[i + 1] = "poll"
        /\ l[i] = "return" => i = Len(l) /\ (i > 1 => l[i - 1] # "sleep")

\* In every state: the log is ordered, there is one sleep between any two
\* consecutive polls and none before the first or after the last, and a
\* call that sleeps has passed its check without timing out.
C16_State ==
    \A c \in Calls :
        LET l == task[c].log IN
        /\ Ordered(l)
        /\ Count(l, "send") = task[c].sends
        /\ Count(l, "poll") = task[c].polls
        /\ Count(l, "sleep") = task[c].sleeps
        /\ task[c].sends <= 1
        /\ task[c].polls > 0 => task[c].sends = 1
        /\ task[c].sleeps =
              (IF task[c].pc = "sleep" THEN task[c].polls
               ELSE IF task[c].polls = 0 THEN 0 ELSE task[c].polls - 1)
        /\ task[c].pc = "sleep" =>
              /\ LastSaid(c, "pending")
              /\ task[c].duration # NoDuration
              /\ task[c].duration < (TimeoutSecs + 1) * UnitsPerSec

\* In every step: a sleep that ends has lasted one second or more.
C16_Step ==
    \A c \in Calls :
        (task[c].pc = "sleep" /\ task'[c].pc # "sleep") =>
            \/ task[c].elapsed - task[c].duration >= UnitsPerSec
            \/ task[c].elapsed = MaxElapsed

\* C16: one sendTransaction request, then status polls with exactly one
\* suspension of one second between two consecutive polls, none before the
\* first poll and none after the answer that ends the call; each suspension
\* follows a `pending` answer and an elapsed-time check that did not time
\* out.
C16_EventOrder == [] C16_State /\ [][C16_Step]_vars

\* Three polls, two sleeps between them, then the answer that ends the call.
C16_Witness ==
    \E c \in Calls :
        /\ task[c].pc = "done"
        /\ task[c].polls = 3
        /\ task[c].sleeps = 2
        /\ task[c].log = <<"send", "poll", "pending", "check", "sleep",
                           "poll", "pending", "check", "sleep",
                           "poll", "return">>

\* Call c was given an envelope that cannot be encoded and has returned.
EncodingFailed(c) == task[c].tx = "unencodable" /\ task[c].pc = "done"

C18_AtMostTwelvePolls ==
    \A c \in Calls :
        /\ task[c].polls <= TimeoutSecs + 2
        /\ node[c].answers <= TimeoutSecs + 2
        /\ task[c].polls > 0 =>
              task[c].elapsed >= Min((task[c].polls - 1) * UnitsPerSec, MaxElapsed)
        /\ (task[c].polls = TimeoutSecs + 2 /\ node[c].answers = task[c].polls) =>
              task[c].pc = "done"

\* The 12th poll, answered `pending`: timeout.
C18_Witness ==
    \E c \in Calls :
        /\ task[c].polls = TimeoutSecs + 2
        /\ node[c].pendings = TimeoutSecs + 2
        /\ task[c].outcome = ErrTransactionSubmissionTimeout

\* The call of simulate_transaction has had a decoded response.
SimAnswered == sim.pc = "done" /\ sim.reply.kind = "ok"

\* C14: simulate_transaction sends one simulateTransaction request and no
\* other: it never sends a second request or a getTransactionStatus, and a
\* call that has had an answer sent exactly one.  When the request succeeds
\* and the decoded response has a non-empty error, the call returns
\* TransactionSimulationFailed with that string, not JsonRpc; when the
\* response has no error, the call returns that response as it was decoded.
C14_OneRequestErrorSurfaced ==
    /\ Len(sim.requests) <= 1
    /\ \A i \in 1..Len(sim.requests) : sim.requests[i] = "simulateTransaction"
    /\ sim.pc \in {"await"} \/ sim.reply.kind # "none"
          => sim.requests = <<"simulateTransaction">>
    /\ SimAnswered /\ sim.reply.error.some /\ sim.reply.error.val # ""
          => /\ sim.outcome.kind = "TransactionSimulationFailed"
             /\ sim.outcome.error = sim.reply.error.val
    /\ SimAnswered /\ ~sim.reply.error.some
          => /\ sim.outcome.kind = "Ok"
             /\ sim.outcome.response = sim.reply

\* A response with a non-empty error has been turned into the failure.
C14_Witness ==
    /\ SimAnswered
    /\ sim.reply.error = Some("host error")
    /\ sim.outcome = ErrTransactionSimulationFailed("host error")
    /\ sim.requests = <<"simulateTransaction">>

\* C19: simulate_transaction ends in TransactionSimulationFailed exactly
\* when it decoded a response whose error field is present; a present but
\* empty error gives TransactionSimulationFailed(""), never a success.
C19_FailsIffErrorPresent ==
    sim.pc = "done" =>
        /\ sim.outcome.kind = "TransactionSimulationFailed"
              <=> (sim.reply.kind = "ok" /\ sim.reply.error.some)
        /\ sim.reply.kind = "ok" /\ sim.reply.error = Some("")
              => sim.outcome = ErrTransactionSimulationFailed("")

\* A response with an empty error string has been answered with the failure.
C19_Witness ==
    /\ SimAnswered
    /\ sim.reply.error = Some("")
    /\ sim.outcome.kind = "TransactionSimulationFailed"
    /\ sim.outcome.error = ""

\* get_events has built its parameter object.
Built == events.pc # "idle"

\* The one filter object of the parameter object, and its pagination object.
TheFilter == events.object["filters"][2][1][2]
ThePagination == events.object["pagination"][2]

\* The JSON value v is the list of the strings of xs, in order.
IsListOf(v, xs) ==
    /\ v[1] = "array"
    /\ Len(v[2]) = Len(xs)
    /\ \A i \in 1..Len(xs) : v[2][i][1] = "string" /\ v[2][i][2] = xs[i]

\* C12: the filter object of get_events has a `type` key exactly when the
\* event type is Contract or System, holding "contract" or "system"; no
\* value of it is "all"; it always has `contractIds` and `topics`, holding
\* the lists the caller gave, an empty list as an empty list; it has no
\* other key.
C12_FilterObject ==
    Built =>
        LET event_type == events.args[3] IN
        /\ "type" \in DOMAIN TheFilter <=> event_type \in {"Contract", "System"}
        /\ event_type = "Contract" => TheFilter["type"] = <<"string", "contract">>
        /\ event_type = "System" => TheFilter["type"] = <<"string", "system">>
        /\ \A k \in DOMAIN TheFilter :
              TheFilter[k][1] = "string" => TheFilter[k][2] # "all"
        /\ {"contractIds", "topics"} \subseteq DOMAIN TheFilter
        /\ DOMAIN TheFilter \subseteq {"type", "contractIds", "topics"}
        /\ IsListOf(TheFilter["contractIds"], events.args[4])
        /\ IsListOf(TheFilter["topics"], events.args[5])

\* Event type All with no contract ids: no `type`, `contractIds` empty, and
\* the request is out.
C12_Witness ==
    /\ events.pc = "await"
    /\ events.args[3] = "All"
    /\ events.args[4] = << >>
    /\ "type" \notin DOMAIN TheFilter
    /\ TheFilter["contractIds"] = <<"array", << >> >>

\* The decimal numerals of the ledger numbers passed.
Decimal(n) ==
    CASE n = 100 -> "100" [] n = 200 -> "200" [] n = 2147483647 -> "2147483647"

\* The parameter object of the example call.
ExampleObject ==
    [startLedger |-> <<"string", "100">>,
     endLedger   |-> <<"string", "200">>,
     filters     |-> <<"array",
                       << <<"object",
                            [type        |-> <<"string", "contract">>,
                             contractIds |-> <<"array", << <<"string", "C123">> >> >>,
                             topics      |-> <<"array", << >> >>] >> >> >>,
     pagination  |-> <<"object", [limit |-> <<"number", 10>>] >>]

ExampleArgs == <<100, 200, "Contract", <<"C123">>, << >>, SomeLimit(10)>>

\* C13: the parameter object of get_events has exactly the keys startLedger,
\* endLedger, filters and pagination; the two ledgers are the decimal
\* strings of the numbers passed; filters is a list of one object;
\* pagination is an object with `limit`, the number passed, exactly when a
\* limit was passed, and with no other key, so no cursor; and the call
\* (100, 200, Some(Contract), ["C123"], [], Some(10)) builds the object of
\* the example.
C13_ParamsObject ==
    Built =>
        LET limit == events.args[6] IN
        /\ DOMAIN events.object = {"startLedger", "endLedger", "filters", "pagination"}
        /\ events.object["startLedger"] = <<"string", Decimal(events.args[1])>>
        /\ events.object["endLedger"] = <<"string", Decimal(events.args[2])>>
        /\ events.object["filters"][1] = "array"
        /\ Len(events.object["filters"][2]) = 1
        /\ events.object["filters"][2][1][1] = "object"
        /\ events.object["pagination"][1] = "object"
        /\ "limit" \in DOMAIN ThePagination <=> limit.some
        /\ limit.some => ThePagination["limit"] = <<"number", limit.val>>
        /\ "cursor" \notin DOMAIN ThePagination
        /\ DOMAIN ThePagination \subseteq {"limit"}
        /\ events.args = ExampleArgs => events.object = ExampleObject

\* The example call has sent its request.
C13_Witness ==
    /\ events.pc = "await"
    /\ events.requests = <<"getEvents">>
    /\ events.args = ExampleArgs
    /\ events.object = ExampleObject

====
